---- MODULE Spec2Model ----
(***************************************************************************)
(* The bounded concurrent fetch-and-merge pipeline of the Udemy scraper:   *)
(* scraper/fetch_pages.py (fetch_course_links, bounded_fetch, the three    *)
(* start_analysis_* batches, main_script), scraper/parse_data.py (the      *)
(* extractors), scraper/checker.py (CheckRecords.compare_data_db) and      *)
(* database/models.py (DatabaseManagerSettings).                           *)
(*                                                                         *)
(* One run of main_script on an asyncio event loop.  Every await of a      *)
(* fetch task is a scheduling point and is one action; the code main_script*)
(* runs between two awaits cannot be interleaved with any task and is      *)
(* modelled as the continuation of the gather it follows.                  *)
(***************************************************************************)
EXTENDS Integers, Sequences, FiniteSets, TLC

\* ------------------------------------------------------------ bounds

\* Most search-result pages a run is started with (main.py: start_page..end_page).
MaxSeeds == 2
\* Largest concurrency cap a run is started with (main.py: max_concurrent_tasks).
MaxCap == 2
\* Most course listings on one search page given to the novelty filter.
MaxListed == 2

\* ------------------------------------------------------------ the web

NA == "N/A"

\* Seed URLs, one per result-page number (main.py builds them from the page range).
SeedNames == <<"search?p=1", "search?p=2", "search?p=3", "search?p=4">>

\* The hrefs of h3[data-purpose=course-title-url] elements that start with
\* "/course/" (parse_data.py:60 link.startswith("/course/")).
CourseHrefs == {"/course/c1/", "/course/c2/", "/course/C1/"}

\* parse_data.py:61  full_link = f"https://www.udemy.com{link}".strip()
FullLink(href) == "https://www.udemy.com" \o href

\* parse_data.py:194  "https://www.udemy.com" + a.get("href")
InstructorLink(href) == "https://www.udemy.com" \o href

\* The href of the instructor link a course page shows: one instructor per course.
InstructorHref(u) ==
    IF u = "https://www.udemy.com/course/c1/" THEN "/user/i1/" ELSE "/user/i2/"

DetailFields == {"course_title", "course_subtitle", "course_num_students",
                 "course_rating", "course_created_by", "course_last_updated",
                 "course_url", "instructor_name", "instructor_ratings",
                 "instructor_reviews", "instructor_students",
                 "instructor_courses", "instructor_url"}

InstructorFields == {"instructor_name", "instructor_website", "twitter",
                     "linkedin", "facebook", "youtube", "instructor_url"}

\* Markup of a field that the page does not contain.
ABSENT == ""

\* The course listings a search page shows, as the hrefs in page order.
Listings == {<<>>, <<"/course/c1/">>, <<"/course/c2/">>}

\* Rendered search-result pages: the h1 heading (ABSENT, or the text holding the
\* quoted search expression) and the hrefs of the course listings in page order.
SearchBodies ==
    {[h1 |-> "10,000 results for 'ChatGPT'", links |-> l] : l \in Listings}
        \cup {[h1 |-> ABSENT, links |-> <<"/course/c1/">>]}

\* Rendered course pages served for url u: each field's markup text, or ABSENT.
\* The instructor block (name and link) is present or absent as a whole.
DetailBodies(u) ==
    {[f \in DetailFields |->
        CASE f = "instructor_url" -> IF ins THEN InstructorHref(u) ELSE ABSENT
          [] f \in {"instructor_name", "instructor_ratings", "instructor_reviews",
                    "instructor_students", "instructor_courses"} ->
                 IF ins THEN InstructorHref(u) ELSE ABSENT
          [] OTHER -> u] : ins \in BOOLEAN}

\* Rendered instructor pages served for url u.
InstructorBodies(u) ==
    {[f \in InstructorFields |->
        IF f \in {"instructor_name", "instructor_url"} THEN u
        ELSE IF social THEN u ELSE ABSENT] : social \in BOOLEAN}

\* ------------------------------------------------------------ values

Min(a, b) == IF a <= b THEN a ELSE b

\* What a fetch task ends with: fetch_course_links returns the page content or
\* None; an exception raised outside its try block ends the task instead.
NoneResult == [kind |-> "None", of |-> "", body |-> <<>>]
Html(u, b) == [kind |-> "html", of |-> u, body |-> b]
Raised == [kind |-> "exception", of |-> "", body |-> <<>>]
Pending == [kind |-> "pending", of |-> "", body |-> <<>>]

\* Exceptions caught by the try block of fetch_course_links.
TryErrors == {"goto", "timeout", "content"}
\* Exceptions raised before the try block is entered.
SetupErrors == {"launch", "new_page"}

NewTask(u) == [url |-> u, pc |-> "waiting", res |-> Pending, err |-> "none",
               browser |-> "none"]

VARIABLES
    pc,                     \* where main_script is
    urls,                   \* main_script's argument: the seed URLs
    max_concurrent_tasks,   \* main_script's argument: the cap N
    tasks,                  \* the bounded_fetch tasks of the current batch
    semValue,               \* free slots of the current batch's semaphore
    doneOrder,              \* indices of the batch's tasks in completion order
    returned,               \* what the last gather returned
    complet_list_urls,      \* the candidates stage 1 extracted, before the filter
    complet_list_expressions,
    detail_html_contents,   \* what the gather of stage 2 returned
    detail_data,            \* the dict of lists parse_detail_course_links returned
    instructor_detail_data, \* the dict of lists parse_instructor_links returned
    checkLog,               \* the errors logged by checker.py
    df_course_links,
    df_detail_course_links,
    df_instructor_detail,
    db,                     \* the four tables, each a sequence of rows
    session,                \* the persistence sessions: main_script's, CheckRecords'
    errorLog,               \* the alignment errors logged (the three lengths)
    exports,                \* the files written
    uncaught                \* the exception main_script let through, or "none"

vars == <<pc, urls, max_concurrent_tasks, tasks, semValue, doneOrder, returned,
          complet_list_urls, complet_list_expressions, detail_html_contents,
          detail_data, instructor_detail_data, checkLog,
          df_course_links, df_detail_course_links, df_instructor_detail, db,
          session, errorLog, exports, uncaught>>

data == <<complet_list_urls, complet_list_expressions, detail_html_contents,
          detail_data, instructor_detail_data, checkLog,
          df_course_links, df_detail_course_links, df_instructor_detail, db,
          session, errorLog, exports>>

\* ------------------------------------------------------------ extraction

\* re.search of the quoted expression in the heading text, and match.group(1):
\* the text between the quotation marks, or ABSENT when there is no match.
QuotedExpression(h1) ==
    CASE h1 = "10,000 results for 'ChatGPT'" -> "ChatGPT"
      [] h1 = "10,000 results for 'make money'" -> "make money"
      [] OTHER -> ABSENT

\* Mutant of parse_course_links: the listings of a page are taken last first.
parse_course_links_reversed(body) ==
    LET kept == SelectSeq(body.links, LAMBDA href : href \in CourseHrefs)
    IN  [raised |-> \/ body.h1 = ABSENT
                    \/ QuotedExpression(body.h1) = ABSENT /\ kept # <<>>,
         course_links |-> [i \in 1..Len(kept) |-> FullLink(kept[Len(kept) + 1 - i])],
         wanted_expressions |-> [i \in 1..Len(kept) |-> QuotedExpression(body.h1)]]

\* parse_course_links: raises when the h1 heading is absent (None has no .text),
\* and when a course listing is met while the heading held no quoted expression
\* (None has no .group); otherwise one link and one expression per listing whose
\* href starts "/course/".
parse_course_links(body) ==
    LET kept == SelectSeq(body.links, LAMBDA href : href \in CourseHrefs)
    IN  [raised |-> \/ body.h1 = ABSENT
                    \/ QuotedExpression(body.h1) = ABSENT /\ kept # <<>>,
         course_links |-> [i \in 1..Len(kept) |-> FullLink(kept[i])],
         wanted_expressions |-> [i \in 1..Len(kept) |-> QuotedExpression(body.h1)]]

\* start_parse_course_links: pages whose fetch returned None are skipped, the
\* others are parsed in order and their lists concatenated.
RECURSIVE start_parse_course_links(_)
start_parse_course_links(html_content) ==
    IF html_content = <<>>
    THEN [raised |-> FALSE, complet_list_urls |-> <<>>, complet_list_expressions |-> <<>>]
    ELSE LET html == Head(html_content)
             rest == start_parse_course_links(Tail(html_content))
         IN  IF html.kind = "None" THEN rest
             ELSE LET page == parse_course_links(html.body)
                  IN  [raised |-> page.raised \/ rest.raised,
                       complet_list_urls |-> page.course_links \o rest.complet_list_urls,
                       complet_list_expressions |->
                           page.wanted_expressions \o rest.complet_list_expressions]

\* The per-field try/except of the extractors: the markup's text, or "N/A".
FieldOrNA(body, f) == IF body[f] = ABSENT THEN NA ELSE body[f]

\* The four figures of the instructor block of a course page, in the order in
\* which a page that shows them all lists them.
StatsFields == <<"instructor_ratings", "instructor_reviews", "instructor_students",
                 "instructor_courses">>

\* find_all("div", class_="ud-block-list-item-content") inside the instructor
\* block: the texts of the figures the page shows, in page order.
StatsItems(body) ==
    SelectSeq([k \in 1..Len(StatsFields) |-> body[StatsFields[k]]],
              LAMBDA text : text # ABSENT)

\* Lines 177-196: every field is the text of its own markup or "N/A", but the
\* four figures are read by position, [0] to [3], in the list of the figures
\* the page shows; the instructor url is the site prefix and the title's href.
DetailRecord(body) ==
    LET items == StatsItems(body)
    IN  [f \in DetailFields |->
            CASE f = "instructor_ratings" -> IF 1 <= Len(items) THEN items[1] ELSE NA
              [] f = "instructor_reviews" -> IF 2 <= Len(items) THEN items[2] ELSE NA
              [] f = "instructor_students" -> IF 3 <= Len(items) THEN items[3] ELSE NA
              [] f = "instructor_courses" -> IF 4 <= Len(items) THEN items[4] ELSE NA
              [] f = "instructor_url" /\ body[f] # ABSENT -> InstructorLink(body[f])
              [] OTHER -> FieldOrNA(body, f)]

InstructorRecord(body) == [f \in InstructorFields |-> FieldOrNA(body, f)]

\* "if html_content is None: continue" of both list extractors.
SkippedByParser(html) == html.kind = "None"

\* BeautifulSoup(html_content, "html.parser") is outside every try block: an
\* element that is neither None nor markup (an exception object placed in the
\* list by gather(return_exceptions=True)) makes the extractor raise.
ParserRaises(html_contents) ==
    \E i \in 1..Len(html_contents) : html_contents[i].kind = "exception"

\* Mutant of parse_detail_course_links: a None element gives "N/A" in every list.
parse_detail_padded(html_contents) ==
    [f \in DetailFields |->
        [i \in 1..Len(html_contents) |->
            IF SkippedByParser(html_contents[i]) THEN NA
            ELSE DetailRecord(html_contents[i].body)[f]]]

\* parse_detail_course_links: a dict of 13 lists; every element that is not
\* None appends one entry to each list, the field's text or "N/A".
parse_detail_course_links(html_contents) ==
    LET kept == SelectSeq(html_contents, LAMBDA h : ~SkippedByParser(h))
    IN  [f \in DetailFields |->
            [j \in 1..Len(kept) |-> DetailRecord(kept[j].body)[f]]]

\* Mutant of parse_instructor_links: a None element gives "N/A" in every list.
parse_instructor_padded(instructor_html_content) ==
    [f \in InstructorFields |->
        [i \in 1..Len(instructor_html_content) |->
            IF SkippedByParser(instructor_html_content[i]) THEN NA
            ELSE InstructorRecord(instructor_html_content[i].body)[f]]]

\* parse_instructor_links: a dict of 7 lists, filled in the same way.
parse_instructor_links(instructor_html_content) ==
    LET kept == SelectSeq(instructor_html_content, LAMBDA h : ~SkippedByParser(h))
    IN  [f \in InstructorFields |->
            [j \in 1..Len(kept) |-> InstructorRecord(kept[j].body)[f]]]

\* pd.DataFrame(dict of lists): row j holds entry j of every list.
DataFrame(columns) ==
    LET n == Len(columns[CHOOSE f \in DOMAIN columns : TRUE])
    IN  [j \in 1..n |-> [f \in DOMAIN columns |-> columns[f][j]]]

\* ------------------------------------------------------------ persistence

\* read_data(model=CourseLinks, conditions=CourseLinks.url == url): the rows of
\* the table whose url equals the given one.
read_data(table, url) == SelectSeq(table, LAMBDA row : row.url = url)

\* Mutant of insert_data: the function returns inside its loop, after one row.
insert_data_first_row(table, df) == table \o SubSeq(df, 1, Min(1, Len(df)))

\* Mutant of insert_data: the rows are added to the session and never committed.
insert_data_uncommitted(table, df) == table

\* Mutant of insert_data: a record equal to a stored row is not inserted again.
insert_data_upsert(table, df) ==
    table \o SelectSeq(df, LAMBDA row : \A k \in 1..Len(table) : table[k] # row)

\* insert_data: one new row per record of the frame, appended in frame order.
insert_data(table, df) == table \o df

\* Mutant of insert_data_outcomes: session.commit() inside the loop, so the rows
\* added before a failure stay in the table.
insert_data_row_by_row(table, df) ==
    {[raised |-> k < Len(df), table |-> table \o SubSeq(df, 1, k)] : k \in 0..Len(df)}

\* The ways insert_data can end: every row is added to the session and the one
\* session.commit() after the loop makes them all durable; or building a row or
\* the commit raises, and none of the rows added is in the table.
insert_data_outcomes(table, df) ==
    {[raised |-> FALSE, table |-> insert_data(table, df)],
     [raised |-> TRUE, table |-> table]}

\* Mutant of NotIn: the url is looked for in the wanted_expression column.
NotInExpressions(url, df_database) ==
    \A k \in 1..Len(df_database) : df_database[k].wanted_expression # url

\* Line 83: url not in df_database["url"].values
NotIn(url, df_database) == \A k \in 1..Len(df_database) : df_database[k].url # url

\* str.lower of a url.
Lower(url) ==
    IF url = "https://www.udemy.com/course/C1/" THEN "https://www.udemy.com/course/c1/"
    ELSE url

\* Mutant of compare_data_db: urls are compared without regard to case.
compare_data_db_nocase(candidate_urls, expressions, table) ==
    LET n == Len(candidate_urls)
        df_merged_course_links ==
            [i \in 1..n |-> [url |-> candidate_urls[i],
                             wanted_expression |-> expressions[i]]]
        df_to_insert ==
            SelectSeq(df_merged_course_links,
                      LAMBDA row : \A k \in 1..Len(table) :
                                      Lower(table[k].url) # Lower(row.url))
    IN  IF n = 0
        THEN [outcome |-> "exit", checker |-> "open", df |-> <<>>]
        ELSE IF df_to_insert = <<>>
        THEN [outcome |-> "exit", checker |-> "closed", df |-> <<>>]
        ELSE [outcome |-> "return", checker |-> "closed", df |-> df_to_insert]

\* Mutant of compare_data_db: the frame is returned also when it is empty.
compare_data_db_returns_empty(candidate_urls, expressions, table) ==
    LET n == Len(candidate_urls)
        df_merged_course_links ==
            [i \in 1..n |-> [url |-> candidate_urls[i],
                             wanted_expression |-> expressions[i]]]
        df_to_insert ==
            SelectSeq(df_merged_course_links,
                      LAMBDA row : NotIn(row.url, read_data(table, row.url)))
    IN  [outcome |-> "return", checker |-> "closed", df |-> df_to_insert]

\* compare_data_db: exit() on an empty candidate frame; otherwise the candidates
\* with no row of the course-link table holding their url, in candidate order;
\* the CheckRecords session is closed after the loop; exit() when none is new.
compare_data_db(candidate_urls, expressions, table) ==
    LET n == Len(candidate_urls)
        df_merged_course_links ==
            [i \in 1..n |-> [url |-> candidate_urls[i],
                             wanted_expression |-> expressions[i]]]
        df_to_insert ==
            SelectSeq(df_merged_course_links,
                      LAMBDA row : NotIn(row.url, read_data(table, row.url)))
    IN  IF n = 0
        THEN [outcome |-> "exit", checker |-> "open", df |-> <<>>]
        ELSE IF df_to_insert = <<>>
        THEN [outcome |-> "exit", checker |-> "closed", df |-> <<>>]
        ELSE [outcome |-> "return", checker |-> "closed", df |-> df_to_insert]

\* Mutant of read_data_store: the call is delete_all_data(CourseLinks).
read_data_deleting(tables, url) == [tables EXCEPT !.course_links = <<>>]

\* What read_data does to the tables: session.query(model).filter(conditions)
\* and pd.read_sql(query.statement, ...) issue a SELECT; nothing is added to
\* the session and nothing is committed.
read_data_store(tables, url) == tables

\* What compare_data_db does to the tables: one read_data per candidate, in
\* candidate order (line 81); it calls no other method that touches a table.
RECURSIVE compare_data_db_store(_, _)
compare_data_db_store(tables, candidate_urls) ==
    IF candidate_urls = <<>> THEN tables
    ELSE compare_data_db_store(read_data_store(tables, Head(candidate_urls)),
                               Tail(candidate_urls))

\* Mutant of compare_data_db_outcomes: the handler of the loop logs the
\* exception and does not re-raise it.
compare_data_db_swallows(candidate_urls, expressions, table) ==
    {[result |-> compare_data_db(candidate_urls, expressions, table), logged |-> l] :
        l \in {<<>>, <<"An unexpected error occurred">>}}

\* The ways compare_data_db can end: as above; or, with at least one candidate,
\* an exception raised inside the loop (by read_data) is logged with
\* logger.error and re-raised (lines 96-98), before close_connection.
compare_data_db_outcomes(candidate_urls, expressions, table) ==
    {[result |-> compare_data_db(candidate_urls, expressions, table), logged |-> <<>>]}
    \cup IF candidate_urls = <<>> THEN {}
         ELSE {[result |-> [outcome |-> "raise", checker |-> "open", df |-> <<>>],
                logged |-> <<"An unexpected error occurred">>]}

\* Mutant of MergedRow: of a column that two frames have, the first is kept.
MergedRowFirstWins(link, detail, instructor) ==
    [f \in {"url", "wanted_expression"} \cup DetailFields \cup InstructorFields |->
        IF f \in DetailFields THEN detail[f]
        ELSE IF f \in InstructorFields THEN instructor[f]
        ELSE link[f]]

\* pd.concat([...], axis=1) followed by MergeData(**row.to_dict()): the columns
\* of the three frames side by side; of two columns with one name the later wins.
MergedRow(link, detail, instructor) ==
    [f \in {"url", "wanted_expression"} \cup DetailFields \cup InstructorFields |->
        IF f \in InstructorFields THEN instructor[f]
        ELSE IF f \in DetailFields THEN detail[f]
        ELSE link[f]]

\* "_".join(expression.split(" ")) of the export file names.
ExportTag(expression) ==
    CASE expression = "make money" -> "make_money"
      [] OTHER -> expression

ExportFiles(tag, links, details, instructors) ==
    {[name |-> "course_links", ext |-> e, tag |-> tag, rows |-> links] : e \in {"csv", "xlsx"}}
    \cup {[name |-> "detail_data", ext |-> e, tag |-> tag, rows |-> details] : e \in {"csv", "xlsx"}}
    \cup {[name |-> "instructor_detail_data", ext |-> e, tag |-> tag, rows |-> instructors] :
            e \in {"csv", "xlsx"}}

\* ------------------------------------------------------------ the run

Fetching == pc \in {"fetch1", "fetch2", "fetch3"}

\* The pages a successful capture can return for the current batch's url u.
BodiesFor(u) ==
    CASE pc = "fetch1" -> SearchBodies
      [] pc = "fetch2" -> DetailBodies(u)
      [] OTHER -> InstructorBodies(u)

\* A batch: one task per url (asyncio.create_task(bounded_fetch(...)) in a loop)
\* gated by a fresh Semaphore(max_concurrent_tasks).
NewBatch(batch_urls) == [i \in 1..Len(batch_urls) |-> NewTask(batch_urls[i])]

NoTables == [course_links |-> <<>>, detail_course_links |-> <<>>,
             instructor_details |-> <<>>, merge_data |-> <<>>]

\* Course-link rows an earlier run left in the store.
EarlierRows ==
    {<<>>, <<[url |-> FullLink("/course/c1/"), wanted_expression |-> "ChatGPT"]>>}

Init ==
    /\ pc = "fetch1"
    /\ \E n \in 1..MaxSeeds : urls = [i \in 1..n |-> SeedNames[i]]
    /\ max_concurrent_tasks \in 1..MaxCap
    /\ tasks = NewBatch(urls)
    /\ semValue = max_concurrent_tasks
    /\ doneOrder = <<>>
    /\ returned = <<>>
    /\ complet_list_urls = <<>>
    /\ complet_list_expressions = <<>>
    /\ detail_html_contents = <<>>
    /\ detail_data = [f \in DetailFields |-> <<>>]
    /\ instructor_detail_data = [f \in InstructorFields |-> <<>>]
    /\ checkLog = <<>>
    /\ df_course_links = <<>>
    /\ df_detail_course_links = <<>>
    /\ df_instructor_detail = <<>>
    /\ \E rows \in EarlierRows : db = [NoTables EXCEPT !.course_links = rows]
    /\ session = [main |-> "open", checker |-> "none"]
    /\ errorLog = <<>>
    /\ exports = {}
    /\ uncaught = "none"

\* ------------------------------------------------------------ bounded_fetch

\* Mutant of SemaphoreFree: the gate admits every task.
AlwaysFree == TRUE

\* "async with semaphore": a slot is taken when one is free.
SemaphoreFree == semValue > 0

\* The exit of "async with semaphore": the slot is given back.
Released(value) == value + 1

\* Mutant of ExitPlaywright: the driver is left running (started without the
\* context manager), so nothing is done about an open browser.
NoExitPlaywright(t) == t

\* The exit of "async with async_playwright()" (line 46), taken on every way out
\* of fetch_course_links: the Playwright driver is stopped, which terminates a
\* browser it launched that browser.close() has not closed.
ExitPlaywright(t) == [t EXCEPT !.browser = IF @ = "open" THEN "killed" ELSE @]

\* Mutant of Finish: the slot is given back only when the fetch returned.
FinishLeakOnRaise(i, t) ==
    /\ tasks' = [tasks EXCEPT ![i] = [ExitPlaywright(t) EXCEPT !.pc = "done"]]
    /\ doneOrder' = Append(doneOrder, i)
    /\ semValue' = IF t.res.kind = "exception" THEN semValue ELSE Released(semValue)

\* The task ends: its result is set and it is appended to the completion order.
Finish(i, t) ==
    /\ tasks' = [tasks EXCEPT ![i] = [ExitPlaywright(t) EXCEPT !.pc = "done"]]
    /\ doneOrder' = Append(doneOrder, i)
    /\ semValue' = Released(semValue)

\* bounded_fetch enters "async with semaphore".
Acquire(i) ==
    /\ Fetching
    /\ tasks[i].pc = "waiting"
    /\ SemaphoreFree
    /\ semValue' = semValue - 1
    /\ tasks' = [tasks EXCEPT ![i].pc = "launch"]
    /\ UNCHANGED <<pc, urls, max_concurrent_tasks, doneOrder, returned, data, uncaught>>

\* fetch_course_links line 48: p.chromium.launch, outside the try block.
Launch(i) ==
    /\ Fetching
    /\ tasks[i].pc = "launch"
    /\ \/ /\ tasks' = [tasks EXCEPT ![i].pc = "new_page", ![i].browser = "open"]
          /\ UNCHANGED <<semValue, doneOrder>>
       \/ Finish(i, [tasks[i] EXCEPT !.res = Raised, !.err = "launch"])
    /\ UNCHANGED <<pc, urls, max_concurrent_tasks, returned, data, uncaught>>

\* fetch_course_links line 51: browser.new_page, outside the try block: when it
\* raises, the finally clause that closes the browser is not reached.
NewPage(i) ==
    /\ Fetching
    /\ tasks[i].pc = "new_page"
    /\ \/ /\ tasks' = [tasks EXCEPT ![i].pc = "goto"]
          /\ UNCHANGED <<semValue, doneOrder>>
       \/ Finish(i, [tasks[i] EXCEPT !.res = Raised, !.err = "new_page"])
    /\ UNCHANGED <<pc, urls, max_concurrent_tasks, returned, data, uncaught>>

\* Mutant of Caught: a timeout is not among the exceptions the handler catches.
CaughtButTimeout(t, e) ==
    [t EXCEPT !.pc = "finally", !.res = IF e = "timeout" THEN Raised ELSE NoneResult,
              !.err = e]

\* "except Exception: ... return None": the value the call will return.
Caught(t, e) == [t EXCEPT !.pc = "finally", !.res = NoneResult, !.err = e]

\* fetch_course_links line 55: page.goto(url, timeout). "N/A" is no URL.
Goto(i) ==
    /\ Fetching
    /\ tasks[i].pc = "goto"
    /\ \/ /\ tasks[i].url # NA
          /\ tasks' = [tasks EXCEPT ![i].pc = "wait"]
       \/ tasks' = [tasks EXCEPT ![i] = Caught(tasks[i], "goto")]
    /\ UNCHANGED <<pc, urls, max_concurrent_tasks, semValue, doneOrder, returned, data, uncaught>>

\* fetch_course_links line 58: page.wait_for_load_state("networkidle", timeout).
WaitForLoadState(i) ==
    /\ Fetching
    /\ tasks[i].pc = "wait"
    /\ \/ tasks' = [tasks EXCEPT ![i].pc = "content"]
       \/ tasks' = [tasks EXCEPT ![i] = Caught(tasks[i], "timeout")]
    /\ UNCHANGED <<pc, urls, max_concurrent_tasks, semValue, doneOrder, returned, data, uncaught>>

\* fetch_course_links lines 61-66: page.content() and "return html_content".
Content(i) ==
    /\ Fetching
    /\ tasks[i].pc = "content"
    /\ \/ \E b \in BodiesFor(tasks[i].url) :
            tasks' = [tasks EXCEPT ![i].pc = "finally", ![i].res = Html(tasks[i].url, b)]
       \/ tasks' = [tasks EXCEPT ![i] = Caught(tasks[i], "content")]
    /\ UNCHANGED <<pc, urls, max_concurrent_tasks, semValue, doneOrder, returned, data, uncaught>>

\* fetch_course_links lines 72-74: "finally: await browser.close()", then the
\* return through bounded_fetch, which leaves "async with semaphore".
CloseBrowser(i) ==
    /\ Fetching
    /\ tasks[i].pc = "finally"
    /\ Finish(i, [tasks[i] EXCEPT !.browser = "closed"])
    /\ UNCHANGED <<pc, urls, max_concurrent_tasks, returned, data, uncaught>>

\* ------------------------------------------------------------ gather

\* Mutant of AllDone: the batch is awaited until its first task is done
\* (asyncio.wait with FIRST_COMPLETED).
AnyDone == \E i \in 1..Len(tasks) : tasks[i].pc = "done"

\* Every task of the batch is done: what "await asyncio.gather(*tasks)" waits for.
AllDone == \A i \in 1..Len(tasks) : tasks[i].pc = "done"

SomeRaised == \E i \in 1..Len(tasks) : tasks[i].pc = "done" /\ tasks[i].res.kind = "exception"

\* Mutant of GatherResults: the results in the order the tasks completed.
GatherAsCompleted(batch, order) == [i \in 1..Len(batch) |-> batch[order[i]].res]

\* asyncio.gather(*tasks): the tasks' results in the order of the tasks.
GatherResults(batch, order) == [i \in 1..Len(batch) |-> batch[i].res]

\* Mutant of GatherReturn: the batch is awaited only until every task has been
\* admitted through the gate; a task not yet done counts as None.
GatherReturnEarly ==
    /\ Fetching
    /\ \A i \in 1..Len(tasks) : tasks[i].pc # "waiting"
    /\ returned' = [i \in 1..Len(tasks) |->
                       IF tasks[i].pc = "done" THEN tasks[i].res ELSE NoneResult]
    /\ pc' = CASE pc = "fetch1" -> "ret1" [] pc = "fetch2" -> "ret2" [] OTHER -> "ret3"
    /\ UNCHANGED <<urls, max_concurrent_tasks, tasks, semValue, doneOrder, data, uncaught>>

\* The gather of a batch returns: lines 121, 166 (return_exceptions=True: a task's
\* exception is an element of the result) and 213.
GatherReturn ==
    /\ Fetching
    /\ AllDone
    /\ pc = "fetch2" \/ ~SomeRaised
    /\ returned' = GatherResults(tasks, doneOrder)
    /\ pc' = CASE pc = "fetch1" -> "ret1" [] pc = "fetch2" -> "ret2" [] OTHER -> "ret3"
    /\ UNCHANGED <<urls, max_concurrent_tasks, tasks, semValue, doneOrder, data, uncaught>>

\* asyncio.run(main_script(...)) of main.py, when main_script raised: the tasks
\* still pending are cancelled. CancelledError is raised at the task's await; it
\* is not an Exception, so inside the try block only the finally clause runs.
Cancelled(t) ==
    CASE t.pc = "done" -> t
      [] t.pc \in {"goto", "wait", "content", "finally"} ->
            [t EXCEPT !.pc = "cancelled", !.res = Raised, !.browser = "closed"]
      [] OTHER -> [ExitPlaywright(t) EXCEPT !.pc = "cancelled", !.res = Raised]

SlotsAfterCancel ==
    semValue + Cardinality({i \in 1..Len(tasks) :
                               tasks[i].pc \notin {"waiting", "done", "cancelled"}})

\* The exception of the first task that raised.
FirstException ==
    LET first == CHOOSE k \in 1..Len(doneOrder) :
                    /\ tasks[doneOrder[k]].res.kind = "exception"
                    /\ \A j \in 1..(k - 1) : tasks[doneOrder[j]].res.kind # "exception"
    IN  tasks[doneOrder[first]].err

\* The gathers of stages 1 and 3 (lines 121, 213) re-raise the first exception of
\* a task; main_script does not catch it.
GatherRaise ==
    /\ pc \in {"fetch1", "fetch3"}
    /\ SomeRaised
    /\ pc' = "raised"
    /\ uncaught' = FirstException
    /\ tasks' = [i \in 1..Len(tasks) |-> Cancelled(tasks[i])]
    /\ semValue' = SlotsAfterCancel
    /\ UNCHANGED <<urls, max_concurrent_tasks, doneOrder, returned, data>>

\* ------------------------------------------------------------ main_script

Column(df, f) == [i \in 1..Len(df) |-> df[i][f]]

\* An exception main_script does not catch ends the run.
Uncaught(exception) == pc' = "raised" /\ uncaught' = exception

\* Lines 246-257: extraction of the search pages, the novelty filter, the insert
\* of the novel course links, and the creation of the stage-2 batch.
AfterPageLinks ==
    /\ pc = "ret1"
    /\ LET parsed == start_parse_course_links(returned)
       IN  IF parsed.raised
           THEN /\ Uncaught("parse_course_links")
                /\ UNCHANGED <<tasks, semValue, doneOrder, data>>
           ELSE \E compared \in compare_data_db_outcomes(parsed.complet_list_urls,
                                  parsed.complet_list_expressions, db.course_links) :
                LET checked == compared.result
                    store == compare_data_db_store(db, parsed.complet_list_urls)
                IN  /\ complet_list_urls' = parsed.complet_list_urls
                    /\ complet_list_expressions' = parsed.complet_list_expressions
                    /\ session' = [session EXCEPT !.checker = checked.checker]
                    /\ checkLog' = checkLog \o compared.logged
                    /\ UNCHANGED <<detail_html_contents, detail_data,
                                   instructor_detail_data, df_detail_course_links,
                                   df_instructor_detail, errorLog, exports>>
                    /\ CASE checked.outcome = "raise" ->
                             /\ Uncaught("read_data")
                             /\ db' = store
                             /\ UNCHANGED <<tasks, semValue, doneOrder, df_course_links>>
                         [] checked.outcome = "exit" ->
                             /\ pc' = "exited"
                             /\ uncaught' = "SystemExit"
                             /\ db' = store
                             /\ UNCHANGED <<tasks, semValue, doneOrder, df_course_links>>
                         [] OTHER ->
                             /\ df_course_links' = checked.df
                             /\ \E o \in insert_data_outcomes(store.course_links, checked.df) :
                                   /\ db' = [store EXCEPT !.course_links = o.table]
                                   /\ IF o.raised
                                      THEN /\ Uncaught("insert_data")
                                           /\ UNCHANGED <<tasks, semValue, doneOrder>>
                                      ELSE /\ pc' = "fetch2"
                                           /\ tasks' = NewBatch(Column(checked.df, "url"))
                                           /\ semValue' = max_concurrent_tasks
                                           /\ doneOrder' = <<>>
                                           /\ UNCHANGED uncaught
    /\ UNCHANGED <<urls, max_concurrent_tasks, returned>>

\* Lines 258-267: extraction of the course pages, the insert of the detail
\* records, and the creation of the stage-3 batch from their instructor_url.
AfterDetailLinks ==
    /\ pc = "ret2"
    /\ detail_html_contents' = returned
    /\ IF ParserRaises(returned)
       THEN /\ Uncaught("parse_detail_course_links")
            /\ UNCHANGED <<tasks, semValue, doneOrder, detail_data,
                           df_detail_course_links, db>>
       ELSE LET parsed == parse_detail_course_links(returned)
            IN  /\ detail_data' = parsed
                /\ df_detail_course_links' = DataFrame(parsed)
                /\ \E o \in insert_data_outcomes(db.detail_course_links,
                                                  DataFrame(parsed)) :
                      /\ db' = [db EXCEPT !.detail_course_links = o.table]
                      /\ IF o.raised
                         THEN /\ Uncaught("insert_data")
                              /\ UNCHANGED <<tasks, semValue, doneOrder>>
                         ELSE /\ pc' = "fetch3"
                              /\ tasks' = NewBatch(parsed["instructor_url"])
                              /\ semValue' = max_concurrent_tasks
                              /\ doneOrder' = <<>>
                              /\ UNCHANGED uncaught
    /\ UNCHANGED <<urls, max_concurrent_tasks, returned, complet_list_urls,
                   complet_list_expressions, instructor_detail_data, checkLog,
                   df_course_links, df_instructor_detail, session, errorLog, exports>>

\* Line 276: the three frames have the same number of rows.
SameLength(links, details, instructors) ==
    Len(links) = Len(details) /\ Len(details) = Len(instructors)

\* Mutant of MergeStep: the frames are zipped to the shortest, nothing is logged.
MergeStepTruncating(tables, links, details, instructors) ==
    {[db |-> [tables EXCEPT !.merge_data =
                insert_data(@, [i \in 1..Min(Len(links), Min(Len(details), Len(instructors))) |->
                                  MergedRow(links[i], details[i], instructors[i])])],
      logged |-> <<>>, raised |-> FALSE]}

\* Mutant of MergeStep: the instructor frame is joined in the reverse order.
MergeStepUnaligned(tables, links, details, instructors) ==
    IF SameLength(links, details, instructors)
    THEN {[db |-> [tables EXCEPT !.merge_data = o.table],
           logged |-> <<>>, raised |-> o.raised] :
             o \in insert_data_outcomes(tables.merge_data,
                     [i \in 1..Len(links) |->
                         MergedRow(links[i], details[i],
                                   instructors[Len(links) + 1 - i])])}
    ELSE {[db |-> tables, raised |-> FALSE,
           logged |-> <<<<Len(links), Len(details), Len(instructors)>>>>]}

\* Lines 276-285, the ways the merge step can end: when the lengths agree the
\* merged rows are inserted (pd.concat(axis=1), then insert_data); otherwise the
\* error and the three lengths are logged and nothing is inserted.
MergeStep(tables, links, details, instructors) ==
    IF SameLength(links, details, instructors)
    THEN {[db |-> [tables EXCEPT !.merge_data = o.table],
           logged |-> <<>>, raised |-> o.raised] :
             o \in insert_data_outcomes(tables.merge_data,
                     [i \in 1..Len(links) |->
                         MergedRow(links[i], details[i], instructors[i])])}
    ELSE {[db |-> tables, raised |-> FALSE,
           logged |-> <<<<Len(links), Len(details), Len(instructors)>>>>]}

\* Mutant of FinishRun: main_script returns after logging an alignment error.
FinishRunStopsOnError(merged_db, logged, instructors) ==
    /\ db' = merged_db
    /\ errorLog' = errorLog \o logged
    /\ session' = [session EXCEPT !.main = IF logged = <<>> THEN "closed" ELSE @]
    /\ exports' = IF logged = <<>>
                  THEN ExportFiles(ExportTag(complet_list_expressions[1]),
                                   df_course_links, df_detail_course_links, instructors)
                  ELSE {}
    /\ pc' = "done"
    /\ UNCHANGED uncaught

\* Lines 288-313 after the merge step: close_connection and the six exports,
\* their names built from complet_list_expressions[0] (line 298), which raises
\* IndexError on an empty list.
FinishRun(merged_db, logged, instructors) ==
    /\ db' = merged_db
    /\ errorLog' = errorLog \o logged
    /\ session' = [session EXCEPT !.main = "closed"]
    /\ IF complet_list_expressions = <<>>
       THEN /\ Uncaught("IndexError")
            /\ UNCHANGED exports
       ELSE /\ exports' = ExportFiles(ExportTag(complet_list_expressions[1]),
                                      df_course_links, df_detail_course_links,
                                      instructors)
            /\ pc' = "done"
            /\ UNCHANGED uncaught

\* Lines 268-313: extraction of the instructor pages, the insert of the
\* instructor records, the merge step, the close and the exports.
AfterInstructorLinks ==
    /\ pc = "ret3"
    /\ LET parsed == parse_instructor_links(returned)
           frame == DataFrame(parsed)
       IN  /\ instructor_detail_data' = parsed
           /\ df_instructor_detail' = frame
           /\ \E o \in insert_data_outcomes(db.instructor_details, frame) :
                 IF o.raised
                 THEN /\ Uncaught("insert_data")
                      /\ UNCHANGED <<db, session, errorLog, exports>>
                 ELSE \E merge \in MergeStep([db EXCEPT !.instructor_details = o.table],
                                             df_course_links, df_detail_course_links,
                                             frame) :
                        IF merge.raised
                        THEN /\ Uncaught("insert_data")
                             /\ db' = merge.db
                             /\ UNCHANGED <<session, errorLog, exports>>
                        ELSE FinishRun(merge.db, merge.logged, frame)
    /\ UNCHANGED <<urls, max_concurrent_tasks, tasks, semValue, doneOrder, returned,
                   complet_list_urls, complet_list_expressions, detail_html_contents,
                   detail_data, checkLog, df_course_links, df_detail_course_links>>

Next ==
    \/ \E i \in 1..Len(tasks) : Acquire(i)
    \/ \E i \in 1..Len(tasks) : Launch(i)
    \/ \E i \in 1..Len(tasks) : NewPage(i)
    \/ \E i \in 1..Len(tasks) : Goto(i)
    \/ \E i \in 1..Len(tasks) : WaitForLoadState(i)
    \/ \E i \in 1..Len(tasks) : Content(i)
    \/ \E i \in 1..Len(tasks) : CloseBrowser(i)
    \/ GatherReturn
    \/ GatherRaise
    \/ AfterPageLinks
    \/ AfterDetailLinks
    \/ AfterInstructorLinks

Spec == Init /\ [][Next]_vars

\* The event loop runs every task that can take a step, and main_script when
\* its gather is ready: a run does not stop while a step is possible.
FairSpec == Spec /\ WF_vars(Next)

\* ------------------------------------------------------------ the filter alone

\* The novelty filter of main_script (lines 246-252) on the search pages a
\* stage-1 batch can return and the course-link tables earlier runs can leave.

\* The course listings of a search page: up to MaxListed hrefs, in page order.
FilterListings == UNION {[1..k -> CourseHrefs] : k \in 0..MaxListed}

\* What the fetch of a search page returned: None, or the page.
FilterResults ==
    {NoneResult} \cup {Html("", [h1 |-> "10,000 results for 'ChatGPT'", links |-> l]) :
                          l \in FilterListings}

StoredLink(href) == [url |-> FullLink(href), wanted_expression |-> "ChatGPT"]

\* Course-link tables earlier runs left.
FilterTables ==
    {<<>>, <<StoredLink("/course/c1/")>>, <<StoredLink("/course/C1/")>>,
     <<StoredLink("/course/c2/"), StoredLink("/course/c1/")>>}

\* A finished task of the stage-1 batch, with the result the gather returned.
DoneTask(u, result) ==
    [url |-> u, pc |-> "done", res |-> result,
     err |-> IF result.kind = "None" THEN "goto" ELSE "none", browser |-> "closed"]

\* main_script at line 246, the gather of stage 1 having returned.
InitFilter ==
    /\ pc = "ret1"
    /\ max_concurrent_tasks = MaxCap
    /\ semValue = max_concurrent_tasks
    /\ \E n \in 1..MaxSeeds :
          /\ urls = [i \in 1..n |-> SeedNames[i]]
          /\ doneOrder = [i \in 1..n |-> i]
          /\ \E results \in [1..n -> FilterResults] :
                returned = [i \in 1..n |->
                              IF results[i].kind = "None" THEN NoneResult
                              ELSE Html(SeedNames[i], results[i].body)]
    /\ tasks = [i \in 1..Len(urls) |-> DoneTask(urls[i], returned[i])]
    /\ complet_list_urls = <<>>
    /\ complet_list_expressions = <<>>
    /\ detail_html_contents = <<>>
    /\ detail_data = [f \in DetailFields |-> <<>>]
    /\ instructor_detail_data = [f \in InstructorFields |-> <<>>]
    /\ checkLog = <<>>
    /\ df_course_links = <<>>
    /\ df_detail_course_links = <<>>
    /\ df_instructor_detail = <<>>
    /\ \E rows \in FilterTables : db = [NoTables EXCEPT !.course_links = rows]
    /\ session = [main |-> "open", checker |-> "none"]
    /\ errorLog = <<>>
    /\ exports = {}
    /\ uncaught = "none"

NextFilter == AfterPageLinks

SpecFilter == InitFilter /\ [][NextFilter]_vars

\* ------------------------------------------------------------ the extractors alone
\* parse_detail_course_links and parse_instructor_links applied to lists of
\* fetched pages, every field of a page being present or absent on its own.

\* The longest list of pages handed to an extractor.
MaxPages == 3

\* A course page named tag on which the markup of the fields in missing is
\* absent: every other field shows a text of its own, and the instructor title
\* links to the instructor's profile.
RichDetailBody(tag, missing) ==
    [f \in DetailFields |->
        IF f \in missing THEN ABSENT
        ELSE IF f = "instructor_url" THEN "/user/" \o tag \o "/"
        ELSE tag \o " " \o f]

\* The instructor link is an <a> inside the instructor title: a page without
\* the title has no link either.
RichDetailBodies ==
    {RichDetailBody("p1", missing) :
        missing \in {m \in SUBSET DetailFields :
                        "instructor_name" \in m => "instructor_url" \in m}}

\* An instructor page named tag; every field has markup of its own.
RichInstructorBody(tag, missing) ==
    [f \in InstructorFields |-> IF f \in missing THEN ABSENT ELSE tag \o " " \o f]

RichInstructorBodies ==
    {RichInstructorBody("p1", missing) : missing \in SUBSET InstructorFields}

\* The lists handed to parse_detail_course_links: one page of any shape, or up
\* to MaxPages elements, each None or one of two different pages.
DetailInputs ==
    {<<Html("", b)>> : b \in RichDetailBodies}
        \cup UNION {[1..k -> {NoneResult, Html("", RichDetailBody("p1", {})),
                              Html("", RichDetailBody("p2", {"instructor_ratings"}))}] :
                        k \in 0..MaxPages}

\* The lists handed to parse_instructor_links.
InstructorInputs ==
    {<<Html("", b)>> : b \in RichInstructorBodies}
        \cup UNION {[1..k -> {NoneResult, Html("", RichInstructorBody("p1", {})),
                              Html("", RichInstructorBody("p2", {"twitter"}))}] :
                        k \in 0..MaxPages}

\* One of the two wrappers is about to be called with its list.
InitExtract ==
    /\ \/ /\ pc = "parse_detail"
          /\ detail_html_contents \in DetailInputs
          /\ returned = <<>>
       \/ /\ pc = "parse_instructor"
          /\ detail_html_contents = <<>>
          /\ returned \in InstructorInputs
    /\ urls = <<>>
    /\ max_concurrent_tasks = MaxCap
    /\ semValue = max_concurrent_tasks
    /\ tasks = <<>>
    /\ doneOrder = <<>>
    /\ complet_list_urls = <<>>
    /\ complet_list_expressions = <<>>
    /\ detail_data = [f \in DetailFields |-> <<>>]
    /\ instructor_detail_data = [f \in InstructorFields |-> <<>>]
    /\ checkLog = <<>>
    /\ df_course_links = <<>>
    /\ df_detail_course_links = <<>>
    /\ df_instructor_detail = <<>>
    /\ db = NoTables
    /\ session = [main |-> "open", checker |-> "none"]
    /\ errorLog = <<>>
    /\ exports = {}
    /\ uncaught = "none"

\* start_parsing_detail_links: returns what parse_detail_course_links returns.
start_parsing_detail_links ==
    /\ pc = "parse_detail"
    /\ detail_data' = parse_detail_course_links(detail_html_contents)
    /\ pc' = "parsed_detail"
    /\ UNCHANGED <<urls, max_concurrent_tasks, tasks, semValue, doneOrder, returned,
                   complet_list_urls, complet_list_expressions, detail_html_contents,
                   instructor_detail_data, checkLog, df_course_links,
                   df_detail_course_links, df_instructor_detail, db, session,
                   errorLog, exports, uncaught>>

\* start_parsing_instructor_links: returns what parse_instructor_links returns.
start_parsing_instructor_links ==
    /\ pc = "parse_instructor"
    /\ instructor_detail_data' = parse_instructor_links(returned)
    /\ pc' = "parsed_instructor"
    /\ UNCHANGED <<urls, max_concurrent_tasks, tasks, semValue, doneOrder, returned,
                   complet_list_urls, complet_list_expressions, detail_html_contents,
                   detail_data, checkLog, df_course_links,
                   df_detail_course_links, df_instructor_detail, db, session,
                   errorLog, exports, uncaught>>

NextExtract == start_parsing_detail_links \/ start_parsing_instructor_links

SpecExtract == InitExtract /\ [][NextExtract]_vars

\* ------------------------------------------------------------ insert_data alone
\* Calls of insert_data on the course-link table, with any batch of records.

\* The table length from which no further call is made.
MaxStored == 3

\* The frames handed to insert_data: up to MaxListed course-link records.
StoreBatches == UNION {[1..k -> {StoredLink(href) : href \in CourseHrefs}] : k \in 0..MaxListed}

\* A session on a course-link table some earlier calls filled.
InitStore ==
    /\ pc = "store"
    /\ \E rows \in FilterTables : db = [NoTables EXCEPT !.course_links = rows]
    /\ urls = <<>>
    /\ max_concurrent_tasks = MaxCap
    /\ semValue = max_concurrent_tasks
    /\ tasks = <<>>
    /\ doneOrder = <<>>
    /\ returned = <<>>
    /\ complet_list_urls = <<>>
    /\ complet_list_expressions = <<>>
    /\ detail_html_contents = <<>>
    /\ detail_data = [f \in DetailFields |-> <<>>]
    /\ instructor_detail_data = [f \in InstructorFields |-> <<>>]
    /\ checkLog = <<>>
    /\ df_course_links = <<>>
    /\ df_detail_course_links = <<>>
    /\ df_instructor_detail = <<>>
    /\ session = [main |-> "open", checker |-> "none"]
    /\ errorLog = <<>>
    /\ exports = {}
    /\ uncaught = "none"

\* db_manager.insert_data(df, CourseLinks): the call returns with the rows
\* committed, or raises.
InsertCourseLinks ==
    /\ pc = "store"
    /\ Len(db.course_links) < MaxStored
    /\ \E df \in StoreBatches :
        \E inserted \in insert_data_outcomes(db.course_links, df) :
            /\ df_course_links' = df
            /\ db' = [db EXCEPT !.course_links = inserted.table]
            /\ IF inserted.raised
               THEN Uncaught("insert_data")
               ELSE pc' = "store" /\ UNCHANGED uncaught
    /\ UNCHANGED <<urls, max_concurrent_tasks, tasks, semValue, doneOrder, returned,
                   complet_list_urls, complet_list_expressions, detail_html_contents,
                   detail_data, instructor_detail_data, checkLog,
                   df_detail_course_links, df_instructor_detail, session,
                   errorLog, exports>>

NextStore == InsertCourseLinks

SpecStore == InitStore /\ [][NextStore]_vars

\* ------------------------------------------------------------ start_parse_course_links alone
\* The extraction of stage 1 applied to any list of search pages.

\* The hrefs of the h3 title links of a search page: courses, and a listing
\* that is not a course.
ListedHrefs == {"/course/c1/", "/course/c2/", "/topic/t/"}

\* The heading of the search page of the i-th seed: seeds search for different
\* expressions.
Heading(i) ==
    IF i % 2 = 1 THEN "10,000 results for 'ChatGPT'"
    ELSE "10,000 results for 'make money'"

\* What the fetch of a seed can return: None, a page with a listing and no
\* heading, or a page with its heading and up to MaxListed listings.
ParseShapes ==
    {[kind |-> "None", links |-> <<>>], [kind |-> "no heading", links |-> <<"/course/c1/">>]}
        \cup {[kind |-> "page", links |-> l] :
                 l \in UNION {[1..k -> ListedHrefs] : k \in 0..MaxListed}}

\* The result of the fetch of the i-th seed, of the given shape.
ParseResult(i, shape) ==
    CASE shape.kind = "None" -> NoneResult
      [] shape.kind = "no heading" ->
            Html(SeedNames[i], [h1 |-> ABSENT, links |-> shape.links])
      [] OTHER -> Html(SeedNames[i], [h1 |-> Heading(i), links |-> shape.links])

\* main_script at line 246, about to extract the pages the gather returned.
InitParse ==
    /\ pc = "parse_links"
    /\ \E n \in 1..MaxSeeds :
          /\ urls = [i \in 1..n |-> SeedNames[i]]
          /\ \E shapes \in [1..n -> ParseShapes] :
                returned = [i \in 1..n |-> ParseResult(i, shapes[i])]
    /\ max_concurrent_tasks = MaxCap
    /\ semValue = max_concurrent_tasks
    /\ tasks = <<>>
    /\ doneOrder = <<>>
    /\ complet_list_urls = <<>>
    /\ complet_list_expressions = <<>>
    /\ detail_html_contents = <<>>
    /\ detail_data = [f \in DetailFields |-> <<>>]
    /\ instructor_detail_data = [f \in InstructorFields |-> <<>>]
    /\ checkLog = <<>>
    /\ df_course_links = <<>>
    /\ df_detail_course_links = <<>>
    /\ df_instructor_detail = <<>>
    /\ db = NoTables
    /\ session = [main |-> "open", checker |-> "none"]
    /\ errorLog = <<>>
    /\ exports = {}
    /\ uncaught = "none"

\* complet_list_urls, complet_list_expressions = start_parse_course_links(html_content)
ParseCourseLinks ==
    /\ pc = "parse_links"
    /\ LET parsed == start_parse_course_links(returned)
       IN  IF parsed.raised
           THEN /\ Uncaught("parse_course_links")
                /\ UNCHANGED <<complet_list_urls, complet_list_expressions>>
           ELSE /\ complet_list_urls' = parsed.complet_list_urls
                /\ complet_list_expressions' = parsed.complet_list_expressions
                /\ pc' = "parsed_links"
                /\ UNCHANGED uncaught
    /\ UNCHANGED <<urls, max_concurrent_tasks, tasks, semValue, doneOrder, returned,
                   detail_html_contents, detail_data, instructor_detail_data,
                   checkLog, df_course_links, df_detail_course_links,
                   df_instructor_detail, db, session, errorLog, exports>>

NextParse == ParseCourseLinks

SpecParse == InitParse /\ [][NextParse]_vars

\* ------------------------------------------------------------ compare_data_db alone
\* One call of CheckRecords().compare_data_db on any candidate lists and tables.

\* The candidate urls handed to compare_data_db.
CompareCandidates ==
    UNION {[1..k -> {FullLink(href) : href \in CourseHrefs}] : k \in 0..MaxListed}

\* A row of the detail table an earlier run left.
EarlierDetail ==
    DetailRecord(CHOOSE b \in DetailBodies(FullLink("/course/c1/")) :
                    b["instructor_url"] # ABSENT)

\* main_script at line 249: CheckRecords() has opened its session.
InitCompare ==
    /\ pc = "compare"
    /\ complet_list_urls \in CompareCandidates
    /\ complet_list_expressions = [i \in 1..Len(complet_list_urls) |-> "ChatGPT"]
    /\ \E rows \in FilterTables : \E details \in {<<>>, <<EarlierDetail>>} :
          db = [NoTables EXCEPT !.course_links = rows, !.detail_course_links = details]
    /\ session = [main |-> "open", checker |-> "open"]
    /\ urls = <<>>
    /\ max_concurrent_tasks = MaxCap
    /\ semValue = max_concurrent_tasks
    /\ tasks = <<>>
    /\ doneOrder = <<>>
    /\ returned = <<>>
    /\ detail_html_contents = <<>>
    /\ detail_data = [f \in DetailFields |-> <<>>]
    /\ instructor_detail_data = [f \in InstructorFields |-> <<>>]
    /\ checkLog = <<>>
    /\ df_course_links = <<>>
    /\ df_detail_course_links = <<>>
    /\ df_instructor_detail = <<>>
    /\ errorLog = <<>>
    /\ exports = {}
    /\ uncaught = "none"

\* df_course_links = CheckRecords().compare_data_db(...): the call returns the
\* novel candidates, ends the process with exit(), or raises.
CompareDataDb ==
    /\ pc = "compare"
    /\ \E compared \in compare_data_db_outcomes(complet_list_urls,
                           complet_list_expressions, db.course_links) :
          LET checked == compared.result
          IN  /\ session' = [session EXCEPT !.checker = checked.checker]
              /\ checkLog' = checkLog \o compared.logged
              /\ db' = compare_data_db_store(db, complet_list_urls)
              /\ CASE checked.outcome = "raise" ->
                       Uncaught("read_data") /\ UNCHANGED df_course_links
                   [] checked.outcome = "exit" ->
                       /\ pc' = "exited"
                       /\ uncaught' = "SystemExit"
                       /\ UNCHANGED df_course_links
                   [] OTHER ->
                       /\ df_course_links' = checked.df
                       /\ pc' = "compared"
                       /\ UNCHANGED uncaught
    /\ UNCHANGED <<urls, max_concurrent_tasks, tasks, semValue, doneOrder, returned,
                   complet_list_urls, complet_list_expressions, detail_html_contents,
                   detail_data, instructor_detail_data, df_detail_course_links,
                   df_instructor_detail, errorLog, exports>>

NextCompare == CompareDataDb

SpecCompare == InitCompare /\ [][NextCompare]_vars

\* ------------------------------------------------------------ insert_combined_data alone
\* One call of insert_combined_data with three frames of one length. A row's id
\* is its position in its table: the ids are autoincrement keys and no row of
\* these tables is ever deleted.

\* The detail record and the instructor record of a course link.
DetailOf(link) ==
    DetailRecord(CHOOSE b \in DetailBodies(link.url) : b["instructor_url"] # ABSENT)

InstructorOf(link) ==
    InstructorRecord(CHOOSE b \in InstructorBodies(DetailOf(link)["instructor_url"]) :
                        b["twitter"] # ABSENT)

\* Mutant of insert_combined_data: the join row holds the index of the loop in
\* place of the ids the flushes assigned.
insert_combined_data_by_index(tables, links, details, instructors) ==
    [tables EXCEPT
        !.course_links = @ \o links,
        !.detail_course_links = @ \o details,
        !.instructor_details = @ \o instructors,
        !.combined_data = @ \o [i \in 1..Len(links) |->
            [course_link_id |-> i, detail_course_link_id |-> i,
             instructor_detail_id |-> i]]]

\* insert_combined_data, lines 166-215: for every index, a course-link, a detail
\* and an instructor row are added and flushed, which assigns each its id (the
\* next of its table), and a join row with the three ids is added; one commit
\* after the loop.
insert_combined_data(tables, links, details, instructors) ==
    [tables EXCEPT
        !.course_links = @ \o links,
        !.detail_course_links = @ \o details,
        !.instructor_details = @ \o instructors,
        !.combined_data = @ \o [i \in 1..Len(links) |->
            [course_link_id |-> Len(tables.course_links) + i,
             detail_course_link_id |-> Len(tables.detail_course_links) + i,
             instructor_detail_id |-> Len(tables.instructor_details) + i]]]

\* The ways the call can end: committed as a whole, or an exception before or
\* in the commit, which leaves the tables as they were.
insert_combined_data_outcomes(tables, links, details, instructors) ==
    {[raised |-> FALSE, db |-> insert_combined_data(tables, links, details, instructors)],
     [raised |-> TRUE, db |-> tables]}

\* A session on tables earlier runs filled, and three frames of one length.
InitCombined ==
    /\ pc = "combine"
    /\ \E rows \in FilterTables : \E details \in {<<>>, <<EarlierDetail>>} :
          db = [course_links |-> rows, detail_course_links |-> details,
                instructor_details |-> <<>>, merge_data |-> <<>>,
                combined_data |-> <<>>]
    /\ df_course_links \in
          UNION {[1..k -> {StoredLink(href) : href \in CourseHrefs}] : k \in 0..MaxListed}
    /\ df_detail_course_links =
          [i \in 1..Len(df_course_links) |-> DetailOf(df_course_links[i])]
    /\ df_instructor_detail =
          [i \in 1..Len(df_course_links) |-> InstructorOf(df_course_links[i])]
    /\ session = [main |-> "open", checker |-> "none"]
    /\ urls = <<>>
    /\ max_concurrent_tasks = MaxCap
    /\ semValue = max_concurrent_tasks
    /\ tasks = <<>>
    /\ doneOrder = <<>>
    /\ returned = <<>>
    /\ complet_list_urls = <<>>
    /\ complet_list_expressions = <<>>
    /\ detail_html_contents = <<>>
    /\ detail_data = [f \in DetailFields |-> <<>>]
    /\ instructor_detail_data = [f \in InstructorFields |-> <<>>]
    /\ checkLog = <<>>
    /\ errorLog = <<>>
    /\ exports = {}
    /\ uncaught = "none"

\* db_manager_settings.insert_combined_data(df_course_links,
\* df_detail_course_links, df_instructor_detail)
InsertCombinedData ==
    /\ pc = "combine"
    /\ \E o \in insert_combined_data_outcomes(db, df_course_links,
                     df_detail_course_links, df_instructor_detail) :
          /\ db' = o.db
          /\ IF o.raised
             THEN Uncaught("insert_combined_data")
             ELSE pc' = "combined" /\ UNCHANGED uncaught
    /\ UNCHANGED <<urls, max_concurrent_tasks, tasks, semValue, doneOrder, returned,
                   complet_list_urls, complet_list_expressions, detail_html_contents,
                   detail_data, instructor_detail_data, checkLog, df_course_links,
                   df_detail_course_links, df_instructor_detail, session,
                   errorLog, exports>>

NextCombined == InsertCombinedData

SpecCombined == InitCombined /\ [][NextCombined]_vars

\* ------------------------------------------------------------ claims

\* Tasks that hold a slot: inside "async with semaphore", fetch not yet returned.
InFlight ==
    Cardinality({i \in 1..Len(tasks) :
                    tasks[i].pc \in {"launch", "new_page", "goto", "wait", "content", "finally"}})

Returned == pc \in {"ret1", "ret2", "ret3"}

\* The urls the current batch was created from.
BatchInput ==
    CASE pc \in {"fetch1", "ret1"} -> urls
      [] pc \in {"fetch2", "ret2"} -> Column(df_course_links, "url")
      [] OTHER -> Column(df_detail_course_links, "instructor_url")

\* C1: when a stage's batch has returned, the returned sequence is as long as
\* the input, and its element i is the result of the task that fetched input
\* url i (a captured page is the page of that url), whatever the order in which
\* the tasks completed.
C1_OrderingInvariant ==
    Returned =>
        /\ Len(returned) = Len(BatchInput)
        /\ \A i \in 1..Len(BatchInput) :
              /\ tasks[i].url = BatchInput[i]
              /\ returned[i] = tasks[i].res
              /\ returned[i].kind = "html" => returned[i].of = BatchInput[i]

\* A batch of two returned whose second task completed first, with different
\* results at the two positions.
C1_Witness ==
    /\ pc = "ret3"
    /\ Len(returned) = 2
    /\ doneOrder = <<2, 1>>
    /\ returned[1].kind = "html"
    /\ returned[2].kind = "None"

\* C2: at no point of the run hold more than max_concurrent_tasks fetches a
\* slot, and no fetch of a batch is still in flight when main_script goes on
\* (to the next stage, to its end, or out with an exception).
C2_ConcurrencyBound ==
    /\ InFlight <= max_concurrent_tasks
    /\ ~Fetching => InFlight = 0

\* Stage 2 with the gate full and a task queued behind it.
C2_Witness ==
    /\ pc = "fetch2"
    /\ InFlight = max_concurrent_tasks
    /\ \E i \in 1..Len(tasks) : tasks[i].pc = "waiting"

\* C3 (as claimed): a batch never raises to main_script, and what it returns
\* holds None exactly at the positions of the urls whose fetch failed, whatever
\* the failure, and a page at every other position.
C3_FailureIsolation ==
    /\ uncaught \notin SetupErrors
    /\ Returned =>
          \A i \in 1..Len(tasks) :
              /\ tasks[i].err # "none" <=> returned[i].kind = "None"
              /\ tasks[i].err = "none" <=> returned[i].kind = "html"

\* C4: a fetch whose goto, network-idle wait (timeout) or content capture
\* raised returns None, for each of the three alike; the exception does not
\* leave main_script, and the step in which it is caught changes no other task.
C4_CaughtInv ==
    /\ uncaught \notin TryErrors
    /\ \A i \in 1..Len(tasks) :
          (tasks[i].err \in TryErrors /\ tasks[i].pc # "cancelled") =>
              /\ tasks[i].pc \in {"finally", "done"}
              /\ tasks[i].res = NoneResult

C4_CaughtStep ==
    \A i \in 1..Len(tasks) :
        (Len(tasks') = Len(tasks) /\ tasks[i].err = "none" /\ tasks'[i].err \in TryErrors) =>
            /\ pc' = pc
            /\ \A j \in 1..Len(tasks) : j # i => tasks'[j] = tasks[j]

C4_FetchReturnsNone == []C4_CaughtInv /\ [][C4_CaughtStep]_vars

\* A batch returned in which one fetch timed out and its sibling gave a page.
C4_Witness ==
    /\ Returned
    /\ \E i, j \in 1..Len(tasks) :
          /\ tasks[i].err = "timeout"
          /\ returned[i] = NoneResult
          /\ returned[j].kind = "html"

\* C5: when a fetch_course_links call has ended, on whatever path, the browser
\* it launched is not open any more.
C5_BrowserClosed ==
    \A i \in 1..Len(tasks) :
        tasks[i].pc \in {"done", "cancelled"} => tasks[i].browser # "open"

\* A call ended by new_page raising, after the browser was launched.
C5_Witness ==
    \E i \in 1..Len(tasks) :
        /\ tasks[i].pc = "done"
        /\ tasks[i].err = "new_page"
        /\ tasks[i].browser = "killed"

\* C6: the free slots and the fetches in flight always add up to the cap, each
\* fetch in flight holding one slot; when every task of a batch has ended, all
\* max_concurrent_tasks slots are free again.
C6_SlotAccounting ==
    /\ semValue >= 0
    /\ semValue + InFlight = max_concurrent_tasks
    /\ (\A i \in 1..Len(tasks) : tasks[i].pc \in {"done", "cancelled"}) =>
          semValue = max_concurrent_tasks

\* A returned batch in which one fetch raised and one returned None.
C6_Witness ==
    /\ pc = "ret2"
    /\ semValue = max_concurrent_tasks
    /\ \E i, j \in 1..Len(returned) :
          returned[i].kind = "exception" /\ returned[j].kind = "None"

\* The positions of a returned batch that hold a page.
PageIndices(html_contents) ==
    SelectSeq([i \in 1..Len(html_contents) |-> i],
              LAMBDA i : html_contents[i].kind = "html")

Misaligned == ~SameLength(df_course_links, df_detail_course_links, df_instructor_detail)

\* C9: a run that reached the merge step with collections of different lengths
\* logged the three lengths and inserted no merged row; the three other tables
\* hold exactly the rows inserted into them before.
C9_AlignmentError ==
    (pc = "done" /\ Misaligned) =>
        /\ errorLog = <<<<Len(df_course_links), Len(df_detail_course_links),
                          Len(df_instructor_detail)>>>>
        /\ db.merge_data = <<>>
        /\ \E rows \in EarlierRows : db.course_links = rows \o df_course_links
        /\ db.detail_course_links = df_detail_course_links
        /\ db.instructor_details = df_instructor_detail

\* Lengths 2, 1 and 0 at the merge step.
C9_Witness ==
    /\ pc = "done"
    /\ Len(df_course_links) = 2
    /\ Len(df_detail_course_links) = 1
    /\ Len(df_instructor_detail) = 0
    /\ errorLog # <<>>

\* C10: a run that logged an alignment error is at its normal end, as a run
\* whose merge succeeded: main_script's session is closed and the csv and xlsx
\* files of the course links, the details and the instructors are written.
C10_RunCompletes ==
    (errorLog # <<>> \/ pc = "done") =>
        /\ pc = "done"
        /\ session.main = "closed"
        /\ Cardinality(exports) = 6
        /\ \A e \in {"csv", "xlsx"} :
              /\ \E f \in exports : /\ f.name = "course_links" /\ f.ext = e
                                    /\ f.rows = df_course_links
              /\ \E f \in exports : /\ f.name = "detail_data" /\ f.ext = e
                                    /\ f.rows = df_detail_course_links
              /\ \E f \in exports : /\ f.name = "instructor_detail_data" /\ f.ext = e
                                    /\ f.rows = df_instructor_detail

\* The end of a run whose merge was skipped.
C10_Witness ==
    /\ pc = "done"
    /\ errorLog # <<>>
    /\ db.merge_data = <<>>
    /\ Cardinality(exports) = 6

\* C11: when the merge step is reached with three collections of one length L,
\* the merged table receives exactly L rows, row i holding the fields of course
\* link i, of detail i and of instructor i (of a column both the detail and the
\* instructor frame have, the instructor's value); the rows are committed
\* together, so that the table holds all L of them or, when the insert failed,
\* none of them.
C11_MergedUnit ==
    /\ Len(db.merge_data) \in {0, Len(df_course_links)}
    /\ db.merge_data # <<>> =>
          SameLength(df_course_links, df_detail_course_links, df_instructor_detail)
    /\ (pc = "done" /\ ~Misaligned) => Len(db.merge_data) = Len(df_course_links)
    /\ \A i \in 1..Len(db.merge_data) :
          LET row == db.merge_data[i]
          IN  /\ row.url = df_course_links[i].url
              /\ row.wanted_expression = df_course_links[i].wanted_expression
              /\ \A f \in DetailFields \ InstructorFields :
                    row[f] = df_detail_course_links[i][f]
              /\ \A f \in InstructorFields : row[f] = df_instructor_detail[i][f]

\* Two course links, two details and two instructors merged into two rows.
C11_Witness ==
    /\ pc = "done"
    /\ Len(df_course_links) = 2
    /\ Len(db.merge_data) = 2
    /\ db.merge_data[1].url # db.merge_data[2].url
    /\ db.merge_data[1]["instructor_url"] # db.merge_data[2]["instructor_url"]

\* The candidates whose url is the url of no row of the table, with their
\* expression, in candidate order.
RECURSIVE Novel(_, _, _)
Novel(candidate_urls, expressions, table) ==
    IF candidate_urls = <<>> THEN <<>>
    ELSE LET rest == Novel(Tail(candidate_urls), Tail(expressions), table)
         IN  IF \E k \in 1..Len(table) : table[k].url = Head(candidate_urls)
             THEN rest
             ELSE <<[url |-> Head(candidate_urls),
                     wanted_expression |-> Head(expressions)]>> \o rest

\* C12: what compare_data_db returns is exactly the candidates whose url is, by
\* exact case-sensitive equality, the url of no row the course-link table held
\* when it was called, each with its wanted_expression, in candidate order; it
\* returns (instead of exiting) exactly when there is such a candidate (a call
\* ended by an exception of the store returns nothing).
C12_Step ==
    (pc = "ret1" /\ pc' # "ret1" /\ uncaught' \notin {"parse_course_links", "read_data"}) =>
        LET novel == Novel(complet_list_urls', complet_list_expressions',
                           db.course_links)
        IN  /\ Len(complet_list_urls') = Len(complet_list_expressions')
            /\ df_course_links' = novel
            /\ novel = <<>> <=> pc' = "exited"

C12_NoveltyFilter == [][C12_Step]_vars

\* Candidates c1, C1, c2 against a table holding c1: C1 and c2 are returned.
C12_Witness ==
    /\ pc = "fetch2"
    /\ complet_list_urls = <<FullLink("/course/c1/"), FullLink("/course/C1/"),
                             FullLink("/course/c2/")>>
    /\ db.course_links[1].url = FullLink("/course/c1/")
    /\ Column(df_course_links, "url") = <<FullLink("/course/C1/"), FullLink("/course/c2/")>>

\* C13: after the filter ran and the candidates it returned were inserted (or
\* it found none), the filter run again on the same candidate batch against the
\* table as it is now finds no novel candidate: it returns nothing to insert.
C13_SecondRunEmpty ==
    pc \in {"fetch2", "exited"} =>
        LET again == compare_data_db(complet_list_urls, complet_list_expressions,
                                     db.course_links)
        IN  again.outcome = "exit" /\ again.df = <<>>

\* A first run that found two novel candidates beside a known one.
C13_Witness ==
    /\ pc = "fetch2"
    /\ Len(complet_list_urls) = 3
    /\ Len(df_course_links) = 2
    /\ df_course_links[1].url # df_course_links[2].url
    /\ Len(db.course_links) = 3

C15_StageBarrier ==
    /\ pc \in {"ret1", "ret2", "ret3", "exited", "done"} =>
          \A i \in 1..Len(tasks) : tasks[i].pc = "done" /\ tasks[i].res.kind # "pending"
    /\ pc = "raised" => InFlight = 0
    /\ (Fetching \/ Returned) =>
          /\ Len(tasks) = Len(BatchInput)
          /\ \A i \in 1..Len(tasks) : tasks[i].url = BatchInput[i]
    /\ pc \in {"fetch3", "ret3", "done"} =>
          LET fetched == PageIndices(detail_html_contents)
          IN  /\ Len(df_detail_course_links) = Len(fetched)
              /\ \A j \in 1..Len(fetched) :
                    df_detail_course_links[j] =
                        DetailRecord(detail_html_contents[fetched[j]].body)
    /\ pc \in {"fetch2", "ret2", "fetch3", "ret3", "done"} =>
          /\ Len(detail_html_contents) \in {0, Len(df_course_links)}
          /\ \A i \in 1..Len(df_course_links) :
                \E k \in 1..Len(complet_list_urls) :
                    df_course_links[i].url = complet_list_urls[k]

\* Stage 3 under way after a stage 2 of two fetches.
C15_Witness ==
    /\ pc = "fetch3"
    /\ Len(detail_html_contents) = 2
    /\ InFlight > 0
    /\ \E i \in 1..Len(tasks) : tasks[i].pc = "done"

\* The course-link table holds the rows of earlier runs and then, once, the
\* novel course links of this run.
LinksPersisted == \E rows \in EarlierRows : db.course_links = rows \o df_course_links

\* C16 (as claimed): the novel course links are in the table when a stage-2
\* fetch exists, and the detail, instructor and merged tables receive nothing
\* before the fetching and the extraction of all three stages are complete.
C16_PersistAtEnd ==
    /\ pc \in {"fetch2", "ret2"} => LinksPersisted
    /\ pc \in {"fetch1", "ret1", "fetch2", "ret2", "fetch3", "ret3"} =>
          /\ db.detail_course_links = <<>>
          /\ db.instructor_details = <<>>
          /\ db.merge_data = <<>>

\* C16 (amended): the novel course links are persisted, once, before any
\* stage-2 fetch begins; the detail records are persisted, once, after the
\* extraction of stage 2 and before any stage-3 fetch begins; the instructor
\* records and (when the lengths agree) the merged records are persisted, once
\* each, at the end of the run, after the fetching and extraction of stage 3.
C16_PersistAtBoundaries ==
    /\ pc \in {"fetch1", "ret1", "exited"} =>
          /\ db.course_links \in EarlierRows
          /\ db.detail_course_links = <<>>
    /\ pc \in {"fetch2", "ret2"} =>
          /\ LinksPersisted
          /\ db.detail_course_links = <<>>
    /\ pc \in {"fetch3", "ret3", "done"} =>
          /\ LinksPersisted
          /\ db.detail_course_links = df_detail_course_links
    /\ pc \notin {"done", "raised"} =>
          /\ db.instructor_details = <<>>
          /\ db.merge_data = <<>>
    /\ pc = "done" =>
          /\ db.instructor_details = df_instructor_detail
          /\ Len(db.merge_data) = IF Misaligned THEN 0 ELSE Len(df_course_links)
    /\ pc = "raised" =>
          /\ db.course_links \in EarlierRows \/ LinksPersisted
          /\ db.detail_course_links \in {<<>>, df_detail_course_links}
          /\ db.instructor_details \in {<<>>, df_instructor_detail}
          /\ Len(db.merge_data) \in {0, Len(df_course_links)}

\* A stage-3 fetch in flight with two detail records already in their table.
C16_Witness ==
    /\ pc = "fetch3"
    /\ InFlight > 0
    /\ Len(db.detail_course_links) = 2
    /\ db.instructor_details = <<>>

\* C17: a step that uses a persistence session (an insert into a table, the
\* novelty read of CheckRecords, a close) is a step of main_script after a
\* gather returned: no fetch is in flight or waiting before it, and none is in
\* flight after it.
C17_Step ==
    (db' # db \/ session' # session) =>
        /\ Returned
        /\ InFlight = 0
        /\ \A i \in 1..Len(tasks) : tasks[i].pc = "done"
        /\ Cardinality({i \in 1..Len(tasks') :
                           tasks'[i].pc \notin {"waiting", "done", "cancelled"}}) = 0

C17_NoPersistenceInFlight == [][C17_Step]_vars

\* The detail records of two courses just inserted, no stage-3 fetch admitted yet.
C17_Witness ==
    /\ pc = "fetch3"
    /\ Len(tasks) = 2
    /\ \A i \in 1..Len(tasks) : tasks[i].pc = "waiting"
    /\ Len(db.detail_course_links) = 2
    /\ session.checker = "closed"

\* C18 (as claimed): the course-link collection of a run, which is inserted and
\* whose urls stage 2 fetches, holds no url twice.
C18_UniqueUrls ==
    \A i, j \in 1..Len(df_course_links) :
        i # j => df_course_links[i].url # df_course_links[j].url

\* C19 (as claimed): every fetch taking its steps, each task waiting at the gate
\* is admitted, each batch's gather returns, and the run reaches the early exit
\* or the exports (a run whose store refused an insert is left aside).
C19_RunEnds ==
    /\ \A k \in 1..MaxSeeds :
          [](k \in 1..Len(tasks) /\ tasks[k].pc = "waiting" /\ Fetching
                => <>(~Fetching \/ k \notin 1..Len(tasks) \/ tasks[k].pc # "waiting"))
    /\ <>(pc \in {"exited", "done"} \/ uncaught = "insert_data")

\* Every fetch of a returned batch gave a page.
AllFetched(html_contents) ==
    \A i \in 1..Len(html_contents) : html_contents[i].kind = "html"

\* C20: at the end of a run in which each of the M course urls stage 1 found
\* was novel and every fetch of stages 2 and 3 gave a page, each of the four
\* tables received exactly M rows, and merged row i holds course link i, the
\* detail extracted from the page fetched from that link, and the instructor
\* extracted from the page fetched from that detail's instructor_url.
C20_EndToEnd ==
    (/\ pc = "done"
     /\ Len(df_course_links) = Len(complet_list_urls)
     /\ Len(detail_html_contents) = Len(df_course_links)
     /\ AllFetched(detail_html_contents)
     /\ Len(returned) = Len(df_detail_course_links)
     /\ AllFetched(returned)) =>
        LET M == Len(complet_list_urls)
        IN  /\ \E rows \in EarlierRows :
                  db.course_links = rows \o df_course_links /\ Len(df_course_links) = M
            /\ Len(db.detail_course_links) = M
            /\ Len(db.instructor_details) = M
            /\ Len(db.merge_data) = M
            /\ \A i \in 1..M :
                  LET row == db.merge_data[i]
                      detail == DetailRecord(detail_html_contents[i].body)
                  IN  /\ row.url = complet_list_urls[i]
                      /\ row.wanted_expression = complet_list_expressions[i]
                      /\ db.course_links[Len(db.course_links) - M + i].url = row.url
                      /\ detail_html_contents[i].of = row.url
                      /\ db.detail_course_links[i] = detail
                      /\ \A f \in DetailFields \ InstructorFields : row[f] = detail[f]
                      /\ returned[i].of = detail["instructor_url"]
                      /\ db.instructor_details[i] = InstructorRecord(returned[i].body)
                      /\ \A f \in InstructorFields :
                            row[f] = InstructorRecord(returned[i].body)[f]

\* Two novel courses of two instructors, every page fetched, all social links shown.
C20_Witness ==
    /\ pc = "done"
    /\ Len(complet_list_urls) = 2
    /\ db.course_links = df_course_links
    /\ AllFetched(detail_html_contents)
    /\ AllFetched(returned)
    /\ Len(db.merge_data) = 2
    /\ db.merge_data[1].url = FullLink("/course/c2/")
    /\ db.merge_data[2].url = FullLink("/course/c1/")
    /\ db.merge_data[1]["twitter"] = InstructorLink("/user/i2/")
    /\ db.merge_data[2]["twitter"] = InstructorLink("/user/i1/")

\* The number of pages in a returned batch.
FetchedCount(html_contents) == Len(PageIndices(html_contents))

\* C21 (as claimed): the extraction of a fetched page never ends the run and
\* never drops the record: a search page whose heading is absent still gives
\* its course links (with "N/A" as the expression), and every fetched course
\* or instructor page gives one record.
C21_ExtractionNeverFails ==
    /\ uncaught # "parse_course_links"
    /\ pc = "exited" =>
          \A i \in 1..Len(tasks) :
              (tasks[i].res.kind = "html" /\ tasks[i].res.body.h1 = ABSENT) =>
                  \A k \in 1..Len(tasks[i].res.body.links) :
                      \E c \in 1..Len(complet_list_urls) :
                          /\ complet_list_urls[c] = FullLink(tasks[i].res.body.links[k])
                          /\ complet_list_expressions[c] = NA
    /\ pc \in {"fetch3", "ret3", "done"} =>
          Len(df_detail_course_links) = FetchedCount(detail_html_contents)
    /\ pc = "done" => Len(df_instructor_detail) = FetchedCount(returned)

\* The j-th page of a list, the None elements not counted.
FetchedPage(html_contents, j) == html_contents[PageIndices(html_contents)[j]].body

\* C22 (as claimed): the fields of a record are extracted independently: a
\* field of the record is "N/A" exactly when its own markup is absent from the
\* page, and holds the value of its own markup otherwise.
C22_IndependentFields ==
    /\ pc = "parsed_detail" =>
          \A j \in 1..FetchedCount(detail_html_contents) : \A f \in DetailFields :
              LET body == FetchedPage(detail_html_contents, j)
              IN  detail_data[f][j] =
                      IF body[f] = ABSENT THEN NA
                      ELSE IF f = "instructor_url" THEN "https://www.udemy.com" \o body[f]
                      ELSE body[f]
    /\ pc = "parsed_instructor" =>
          \A j \in 1..FetchedCount(returned) : \A f \in InstructorFields :
              LET body == FetchedPage(returned, j)
              IN  instructor_detail_data[f][j] =
                      IF body[f] = ABSENT THEN NA ELSE body[f]

\* A call of insert_data that returned.
C23_Step ==
    (pc = "store" /\ uncaught' = "none") =>
        LET before == db.course_links
            after == db'.course_links
        IN  /\ Len(after) = Len(before) + Len(df_course_links')
            /\ \A i \in 1..Len(before) : after[i] = before[i]
            /\ \A k \in 1..Len(df_course_links') :
                  after[Len(before) + k] = df_course_links'[k]
            /\ db' = [db EXCEPT !.course_links = after]

\* C23: insert_data is append-only: after a call every row that was in the
\* table is still there, unchanged and in its place, and the table has grown by
\* one row per record of the batch, also when an equal record was stored.
C23_AppendOnly == [][C23_Step]_vars

\* A call has returned that inserted a record equal to a row stored before it.
C23_Witness ==
    /\ pc = "store" /\ df_course_links # <<>>
    /\ LET old == Len(db.course_links) - Len(df_course_links)
       IN  /\ old > 0
           /\ \E i \in 1..old : \E k \in 1..Len(df_course_links) :
                 /\ db.course_links[i] = df_course_links[k]
                 /\ db.course_links[old + k] = df_course_links[k]

\* A step in which an exception is raised inside the comparison loop.
C24_Step ==
    LET raisedInLoop == uncaught = "none" /\ uncaught' = "read_data"
    IN  /\ checkLog' # checkLog => raisedInLoop
        /\ raisedInLoop =>
              /\ checkLog' = Append(checkLog, "An unexpected error occurred")
              /\ pc' = "raised"
              /\ db' = db
              /\ df_course_links' = <<>>
              /\ tasks' = tasks

\* C24: an exception raised inside the comparison loop of compare_data_db is
\* logged and re-raised: the run ends with it, the tables are as they were, no
\* course link of the batch is inserted and no stage-2 task is created.
C24_LoopException == [][C24_Step]_vars

\* The run has ended with the exception of the loop while a candidate that no
\* stored row holds was waiting to be inserted.
C24_Witness ==
    /\ pc = "raised" /\ uncaught = "read_data" /\ checkLog # <<>>
    /\ \E i \in 1..Len(complet_list_urls) : NotIn(complet_list_urls[i], db.course_links)
    /\ \A i \in 1..Len(tasks) : tasks[i].url = urls[i]

\* C25: when a run has inserted merged rows, every fetch of its stage 2 and of
\* its stage 3 returned a page, and the rows are truly aligned: the detail of
\* merged row i was extracted from the page of course link i, and its
\* instructor from the page of that detail's instructor_url.
C25_MergedMeansAligned ==
    db.merge_data # <<>> =>
        /\ \A i \in 1..Len(detail_html_contents) : detail_html_contents[i].kind = "html"
        /\ \A i \in 1..Len(returned) : returned[i].kind = "html"
        /\ Len(detail_html_contents) = Len(df_course_links)
        /\ Len(returned) = Len(df_course_links)
        /\ Len(db.merge_data) = Len(df_course_links)
        /\ \A i \in 1..Len(df_course_links) :
              LET row == db.merge_data[i]
                  detail == DetailRecord(detail_html_contents[i].body)
                  instructor == InstructorRecord(returned[i].body)
              IN  /\ row.url = df_course_links[i].url
                  /\ detail_html_contents[i].of = df_course_links[i].url
                  /\ \A f \in DetailFields \ InstructorFields : row[f] = detail[f]
                  /\ returned[i].of = detail["instructor_url"]
                  /\ \A f \in InstructorFields : row[f] = instructor[f]

\* A run that found one course link already stored has merged the other one.
C25_Witness ==
    /\ pc = "done"
    /\ Len(db.course_links) = 2 /\ Len(df_course_links) = 1
    /\ Len(db.merge_data) = 1
    /\ db.merge_data[1].url = FullLink("/course/c2/")
    /\ db.merge_data[1]["youtube"] = InstructorLink("/user/i2/")

\* C26 (as claimed): whatever runs came before, the course-link table never
\* holds two rows with the same url.
C26_NoDuplicateRows ==
    \A i \in 1..Len(db.course_links) : \A j \in 1..Len(db.course_links) :
        db.course_links[i].url = db.course_links[j].url => i = j

\* The rows the course-link table held when the run began: what is left of the
\* table without the rows the run inserted.
StoredBefore ==
    SubSeq(db.course_links, 1, Len(db.course_links) - Len(df_course_links))

\* The url has a row among the given rows.
HasRow(rows, url) == \E k \in 1..Len(rows) : rows[k].url = url

\* C27: a url that had a row in the course-link table when the run began gets
\* no stage-2 task, whether or not a detail row exists for it; and a run whose
\* candidates all have such a row ends in the early exit.
C27_StoredNeverRefetched ==
    /\ pc = "fetch2" =>
          /\ Len(tasks) = Len(df_course_links)
          /\ \A i \in 1..Len(tasks) :
                /\ tasks[i].url = df_course_links[i].url
                /\ ~HasRow(StoredBefore, tasks[i].url)
    /\ (/\ pc \in {"fetch2", "exited"}
        /\ complet_list_urls # <<>>
        /\ \A c \in 1..Len(complet_list_urls) :
              HasRow(StoredBefore, complet_list_urls[c])) =>
          pc = "exited" /\ tasks = [i \in 1..Len(urls) |-> DoneTask(urls[i], returned[i])]

\* Stage 2 begins for the one candidate that had no row; the other candidate
\* had a row, and no detail row, when the run began.
C27_Witness ==
    /\ pc = "fetch2"
    /\ StoredBefore # <<>> /\ db.detail_course_links = <<>>
    /\ \E c \in 1..Len(complet_list_urls) : HasRow(StoredBefore, complet_list_urls[c])
    /\ Len(tasks) = 1 /\ ~HasRow(StoredBefore, tasks[1].url)

\* Every candidate had a row when the run began, and the run ended in the exit.
C27_WitnessExit ==
    /\ pc = "exited" /\ complet_list_urls # <<>>
    /\ \A c \in 1..Len(complet_list_urls) : HasRow(StoredBefore, complet_list_urls[c])

\* C28 (as claimed): every element a batch hands to extraction is a page or
\* None; the batch of stage 2 hands no exception object to
\* parse_detail_course_links, which therefore never raises on one.
C28_HtmlOrNone ==
    /\ pc \in {"ret1", "ret2", "ret3"} =>
          \A i \in 1..Len(returned) : returned[i].kind \in {"html", "None"}
    /\ \A i \in 1..Len(detail_html_contents) :
          detail_html_contents[i].kind \in {"html", "None"}
    /\ uncaught # "parse_detail_course_links"

\* The course listings of the first n pages of a list, page after page and, in
\* a page, listing after listing; a page whose fetch returned None has none.
\* Each is the pair of its full url and the expression of its page's heading.
RECURSIVE ListedUpTo(_, _)
ListedUpTo(pages, n) ==
    IF n = 0 THEN <<>>
    ELSE LET page == pages[n]
             courses == IF page.kind = "None" THEN <<>>
                        ELSE SelectSeq(page.body.links, LAMBDA href : href # "/topic/t/")
         IN  ListedUpTo(pages, n - 1) \o
                 [k \in 1..Len(courses) |->
                     <<"https://www.udemy.com" \o courses[k],
                       IF n % 2 = 1 THEN "ChatGPT" ELSE "make money">>]

\* C29: start_parse_course_links returns the course links of the fetched pages
\* in seed-page order and, within a page, in listing order, nothing for a page
\* whose fetch returned None, and as many expressions as urls.
C29_LinksInOrder ==
    pc = "parsed_links" =>
        LET listed == ListedUpTo(returned, Len(returned))
        IN  /\ Len(complet_list_urls) = Len(complet_list_expressions)
            /\ Len(complet_list_urls) = Len(listed)
            /\ \A k \in 1..Len(listed) :
                  /\ complet_list_urls[k] = listed[k][1]
                  /\ complet_list_expressions[k] = listed[k][2]

\* Two pages were fetched; the first lists two different courses, and the
\* links of both pages have been returned.
C29_Witness ==
    /\ pc = "parsed_links"
    /\ Len(returned) = 2
    /\ returned[1].kind = "html" /\ returned[2].kind = "html"
    /\ Len(complet_list_urls) >= 3
    /\ complet_list_urls[1] # complet_list_urls[2]
    /\ complet_list_expressions[1] # complet_list_expressions[Len(complet_list_expressions)]

\* The first page's fetch returned None and the second page's links were returned.
C29_WitnessNone ==
    /\ pc = "parsed_links"
    /\ Len(returned) = 2 /\ returned[1].kind = "None"
    /\ complet_list_urls # <<>>

\* C30: the 13 lists parse_detail_course_links returns, and the 7 lists
\* parse_instructor_links returns, all have one entry per input that is not
\* None, and entry j of every list is the field of the j-th such input.
C30_ListsAligned ==
    /\ pc = "parsed_detail" =>
          \A f \in DetailFields :
              /\ Len(detail_data[f]) = FetchedCount(detail_html_contents)
              /\ \A j \in 1..FetchedCount(detail_html_contents) :
                    detail_data[f][j] =
                        DetailRecord(FetchedPage(detail_html_contents, j))[f]
    /\ pc = "parsed_instructor" =>
          \A f \in InstructorFields :
              /\ Len(instructor_detail_data[f]) = FetchedCount(returned)
              /\ \A j \in 1..FetchedCount(returned) :
                    instructor_detail_data[f][j] =
                        InstructorRecord(FetchedPage(returned, j))[f]

\* A list of three with None in the middle has been extracted: every list has
\* two entries, the first of page p2 and the second of page p1.
C30_Witness ==
    /\ pc = "parsed_detail"
    /\ Len(detail_html_contents) = 3
    /\ detail_html_contents[2].kind = "None"
    /\ detail_data["course_title"] = <<"p2 course_title", "p1 course_title">>
    /\ detail_data["instructor_ratings"] = <<"p2 instructor_reviews", "p1 instructor_ratings">>

\* C31: compare_data_db only reads the store: however the call ends (return,
\* exit, exception), every table holds the rows it held before the call.
C31_ReadOnly == [][pc = "compare" => db' = db]_vars

\* The call has returned a novel candidate after it skipped a stored one, with
\* rows in the course-link and in the detail table.
C31_Witness ==
    /\ pc = "compared"
    /\ df_course_links # <<>>
    /\ Len(df_course_links) < Len(complet_list_urls)
    /\ db.course_links # <<>> /\ db.detail_course_links # <<>>

\* C32: when main_script reaches the export step the list of extracted
\* expressions is not empty: taking its first element never raises, and the
\* files are named after it.
C32_ExportHasExpression ==
    /\ uncaught # "IndexError"
    /\ (pc = "done" \/ exports # {}) =>
          /\ complet_list_expressions # <<>>
          /\ \A f \in exports : f.tag = ExportTag(complet_list_expressions[1])

\* The files have been written by a run whose filter kept one of the two
\* candidates it extracted.
C32_Witness ==
    /\ pc = "done"
    /\ Len(complet_list_expressions) = 2
    /\ Len(df_course_links) = 1
    /\ Cardinality(exports) = 6
    /\ \A f \in exports : f.tag = "ChatGPT"

\* C33: in every merged row the two columns that the detail frame and the
\* instructor frame both have, instructor_name and instructor_url, hold the
\* values of the instructor record of that index; every other column holds the
\* value of the one record that has it.
C33_OverlapFromInstructor ==
    \A i \in 1..Len(db.merge_data) :
        LET row == db.merge_data[i]
        IN  /\ DOMAIN row = {"url", "wanted_expression"} \cup DetailFields \cup InstructorFields
            /\ DetailFields \cap InstructorFields = {"instructor_name", "instructor_url"}
            /\ row["instructor_name"] = df_instructor_detail[i]["instructor_name"]
            /\ row["instructor_url"] = df_instructor_detail[i]["instructor_url"]
            /\ \A f \in {"url", "wanted_expression"} : row[f] = df_course_links[i][f]
            /\ \A f \in DetailFields \ {"instructor_name", "instructor_url"} :
                  row[f] = df_detail_course_links[i][f]
            /\ \A f \in InstructorFields \ {"instructor_name", "instructor_url"} :
                  row[f] = df_instructor_detail[i][f]

\* A merged row whose detail record and instructor record name the instructor
\* differently.
C33_Witness ==
    /\ db.merge_data # <<>>
    /\ df_detail_course_links[1]["instructor_name"] # df_instructor_detail[1]["instructor_name"]
    /\ db.merge_data[1]["instructor_name"] = df_instructor_detail[1]["instructor_name"]
    /\ db.merge_data[1]["instructor_ratings"] = df_detail_course_links[1]["instructor_ratings"]

\* A call of insert_combined_data that returned.
C34_Step ==
    (pc = "combine" /\ pc' = "combined") =>
        LET L == Len(df_course_links)
            Grown(before, after, frame) ==
                /\ Len(after) = Len(before) + L
                /\ \A k \in 1..Len(before) : after[k] = before[k]
                /\ \A i \in 1..L : after[Len(before) + i] = frame[i]
        IN  /\ Grown(db.course_links, db'.course_links, df_course_links)
            /\ Grown(db.detail_course_links, db'.detail_course_links,
                     df_detail_course_links)
            /\ Grown(db.instructor_details, db'.instructor_details,
                     df_instructor_detail)
            /\ Len(db'.combined_data) = Len(db.combined_data) + L
            /\ db'.merge_data = db.merge_data
            /\ \A i \in 1..L :
                  LET join == db'.combined_data[Len(db.combined_data) + i]
                  IN  /\ join.course_link_id = Len(db.course_links) + i
                      /\ join.detail_course_link_id = Len(db.detail_course_links) + i
                      /\ join.instructor_detail_id = Len(db.instructor_details) + i
                      /\ db'.course_links[join.course_link_id] = df_course_links[i]
                      /\ db'.detail_course_links[join.detail_course_link_id] =
                            df_detail_course_links[i]
                      /\ db'.instructor_details[join.instructor_detail_id] =
                            df_instructor_detail[i]

\* C34: for three frames of one length L, insert_combined_data adds L rows to
\* each of the course-link, detail, instructor and join tables, all in one
\* commit (a call that raises leaves every table as it was), and join row i
\* holds the ids of the three rows created for index i.
C34_CombinedInsert ==
    [][C34_Step /\ ((pc = "combine" /\ pc' = "raised") => db' = db)]_vars

\* Two entities have been inserted into tables that already held rows: the ids
\* of the join rows are not the indices of the loop.
C34_Witness ==
    /\ pc = "combined"
    /\ Len(df_course_links) = 2
    /\ Len(db.combined_data) = 2
    /\ Len(db.course_links) = 4
    /\ Len(db.detail_course_links) = 3
    /\ db.combined_data[2].course_link_id = 4
    /\ db.combined_data[2].detail_course_link_id = 3
    /\ db.combined_data[2].instructor_detail_id = 2

\* C35 (as claimed): when a run has ended without an exception, by completing
\* (with or without an alignment error) or by an early exit, the session of
\* main_script and the session of CheckRecords are closed.
C35_SessionsClosed ==
    pc \in {"done", "exited"} =>
        /\ session.main = "closed"
        /\ session.checker = "closed"

====
